---- MODULE Spec2Model ----
(***************************************************************************)
(* Model of evtxview's App (src/bin/evtxview/app.rs): the control loop     *)
(* App::run, the event handler App::handle_events / handle_key_event and   *)
(* the selection, filter and layout commands it dispatches to.             *)
(*                                                                         *)
(* EvtxTable (crate::tui) is not part of app.rs.  Its record store, filter *)
(* predicate sets and view are modelled from the specification (sections   *)
(* 3, 4.1, 4.2, 4.4); App only reaches it through len, is_empty, update,   *)
(* exclude_*, include_*, reset_filter and render.                          *)
(*                                                                         *)
(* Indices are 0-based as in the source; a TLA+ sequence position is the   *)
(* index plus one.  Option<usize> is a sequence of length 0 or 1.          *)
(***************************************************************************)
EXTENDS Integers, Sequences, FiniteSets, TLC

\* ------------------------------------------------------------------ bounds
MaxRecords == 2
MaxBatch == 2
MaxHeight == 6

EventIds == {1, 2}
NoUser == "-"
Users == {NoUser, "alice"}
Records == [event_id : EventIds, user : Users]

\* table viewport heights the layout can produce for the table pane
ViewportHeights == {0, 1, 2, MaxHeight}

None == << >>
Some(i) == << i >>

Min(a, b) == IF a < b THEN a ELSE b
Max(a, b) == IF a > b THEN a ELSE b

SeqsUpTo(S, n) == UNION { [1..k -> S] : k \in 0..n }

\* ---------------------------------------------------------------- state
\* evtx_table .. table_percentage are the fields of struct App (state is the
\* TableState's selected row); pc is the position of App::run.
\* tick_log and last observe the run: tick_log is the sequence of calls made
\* in the current iteration of the loop ("render", "update", "key"); last
\* describes the most recent step: the event handled, the steps argument it
\* passed to next/previous, the selection it read and len() at that moment,
\* the row it passed to the table's exclude_*/include_* (none without such a
\* call) and the number of records its polls appended.
VARIABLES evtx_table, exit, state, table_scroll_state, table_view_port,
          orientation, table_percentage, pc, tick_log, last

vars == << evtx_table, exit, state, table_scroll_state, table_view_port,
           orientation, table_percentage, pc, tick_log, last >>

\* ------------------------------------------------- EvtxTable (from the spec)
EmptyFilter == [include_event_id |-> {}, exclude_event_id |-> {},
                include_user |-> {}, exclude_user |-> {}]

\* evaluate(record): passes every category's include and exclude test
evaluate(f, r) ==
    /\ (f.include_event_id = {} \/ r.event_id \in f.include_event_id)
    /\ r.event_id \notin f.exclude_event_id
    /\ (f.include_user = {} \/ r.user \in f.include_user)
    /\ r.user \notin f.exclude_user

RECURSIVE ScanFrom(_, _, _)
\* store indices k-1 .. Len(recs)-1 (0-based) that pass f, in store order
ScanFrom(f, recs, k) ==
    IF k > Len(recs) THEN << >>
    ELSE (IF evaluate(f, recs[k]) THEN << k - 1 >> ELSE << >>)
         \o ScanFrom(f, recs, k + 1)

\* full rescan after a predicate mutation
recompute_view(t) == [t EXCEPT !.view = ScanFrom(t.filter, t.records, 1)]

\* update that shows every new record, whatever the predicate set says
update_unfiltered(t, batch) ==
    LET recs == t.records \o batch
    IN [t EXCEPT !.records = recs,
                 !.view = @ \o [j \in 1..Len(batch) |-> Len(t.records) + j - 1]]

\* poll_new_records + append + incremental extension of the view
update(t, batch) ==
    LET recs == t.records \o batch
    IN [t EXCEPT !.records = recs,
                 !.view = @ \o ScanFrom(t.filter, recs, Len(t.records) + 1)]

len(t) == Len(t.view)
is_empty(t) == len(t) = 0

\* the record shown in view row i
RowRecord(t, i) == t.records[t.view[i + 1] + 1]

\* exclude that leaves the value in the include set
exclude_keep_include(t, cat, v) ==
    recompute_view(
        IF cat = "event_id"
        THEN [t EXCEPT !.filter.exclude_event_id = @ \cup {v}]
        ELSE [t EXCEPT !.filter.exclude_user = @ \cup {v}])

exclude(t, cat, v) ==
    recompute_view(
        IF cat = "event_id"
        THEN [t EXCEPT !.filter.exclude_event_id = @ \cup {v},
                       !.filter.include_event_id = @ \ {v}]
        ELSE [t EXCEPT !.filter.exclude_user = @ \cup {v},
                       !.filter.include_user = @ \ {v}])

include(t, cat, v) ==
    recompute_view(
        IF cat = "event_id"
        THEN [t EXCEPT !.filter.include_event_id = @ \cup {v},
                       !.filter.exclude_event_id = @ \ {v}]
        ELSE [t EXCEPT !.filter.include_user = @ \cup {v},
                       !.filter.exclude_user = @ \ {v}])

reset(t) == recompute_view([t EXCEPT !.filter = EmptyFilter])

\* the row-addressed entry points App calls; a row outside the view names
\* no record, the predicate set is left as it is
table_exclude_event_id(t, i) ==
    IF i < len(t) THEN exclude(t, "event_id", RowRecord(t, i).event_id) ELSE t
table_include_event_id(t, i) ==
    IF i < len(t) THEN include(t, "event_id", RowRecord(t, i).event_id) ELSE t
table_exclude_user(t, i) ==
    IF i < len(t) THEN exclude(t, "user", RowRecord(t, i).user) ELSE t
table_include_user(t, i) ==
    IF i < len(t) THEN include(t, "user", RowRecord(t, i).user) ELSE t

\* EvtxTable::render receives the TableState; the presentation adapter only
\* reads the selection
table_render(t, st) == st

NewTable(recs) == recompute_view([records |-> recs, filter |-> EmptyFilter,
                                  view |-> << >>])

\* ------------------------------------------------------------ App as a value
\* the fields of struct App, with three observations of a handler's run:
\* panicked (an assert_ne! failed), log (the calls made so far in this
\* iteration) and call (the row passed to the table's exclude_*/include_*,
\* none when the handler made no such call)
App == [evtx_table |-> evtx_table, exit |-> exit, state |-> state,
        table_scroll_state |-> table_scroll_state,
        table_view_port |-> table_view_port,
        orientation |-> orientation, table_percentage |-> table_percentage,
        panicked |-> FALSE, log |-> tick_log, call |-> None]

\* App::new
new(recs) ==
    LET t == NewTable(recs)
        table_len == len(t)
    IN [evtx_table |-> t,
        exit |-> FALSE,
        state |-> Some(0),
        table_scroll_state |->
            [content_length |-> IF table_len = 0 THEN 0 ELSE table_len - 1,
             position |-> 0],
        table_view_port |-> 0,
        orientation |-> "Horizontal",
        table_percentage |-> 50,
        panicked |-> FALSE,
        log |-> << >>,
        call |-> None]

set_selected(a, idx) ==
    [a EXCEPT !.state = Some(idx), !.table_scroll_state.position = idx]

\* next without the clamp to the last row
next_unclamped(a, steps) ==
    IF steps = 0 THEN [a EXCEPT !.panicked = TRUE]
    ELSE IF ~ is_empty(a.evtx_table)
    THEN set_selected(a, IF a.state # None THEN a.state[1] + steps ELSE 0)
    ELSE a

next(a, steps) ==
    IF steps = 0 THEN [a EXCEPT !.panicked = TRUE]
    ELSE IF ~ is_empty(a.evtx_table)
    THEN set_selected(a, IF a.state # None
                         THEN Min(a.state[1] + steps, len(a.evtx_table) - 1)
                         ELSE 0)
    ELSE a

\* previous with the saturation test off by one step
previous_unsaturated(a, steps) ==
    IF steps = 0 THEN [a EXCEPT !.panicked = TRUE]
    ELSE set_selected(a, IF a.state # None
                         THEN (IF a.state[1] < steps - 1 THEN 0
                               ELSE a.state[1] - steps)
                         ELSE 0)

previous(a, steps) ==
    IF steps = 0 THEN [a EXCEPT !.panicked = TRUE]
    ELSE set_selected(a, IF a.state # None
                         THEN (IF a.state[1] < steps THEN 0
                               ELSE a.state[1] - steps)
                         ELSE 0)

\* exclude_event_id without the is_empty test
exclude_event_id_unguarded(a) ==
    IF a.state # None
    THEN [a EXCEPT !.evtx_table = table_exclude_event_id(@, a.state[1]),
                   !.call = a.state]
    ELSE a

exclude_event_id(a) ==
    IF ~ is_empty(a.evtx_table) /\ a.state # None
    THEN [a EXCEPT !.evtx_table = table_exclude_event_id(@, a.state[1]),
                   !.call = a.state]
    ELSE a

include_event_id(a) ==
    IF ~ is_empty(a.evtx_table) /\ a.state # None
    THEN [a EXCEPT !.evtx_table = table_include_event_id(@, a.state[1]),
                   !.call = a.state]
    ELSE a

exclude_user(a) ==
    IF ~ is_empty(a.evtx_table) /\ a.state # None
    THEN [a EXCEPT !.evtx_table = table_exclude_user(@, a.state[1]),
                   !.call = a.state]
    ELSE a

include_user(a) ==
    IF ~ is_empty(a.evtx_table) /\ a.state # None
    THEN [a EXCEPT !.evtx_table = table_include_user(@, a.state[1]),
                   !.call = a.state]
    ELSE a

\* reset_filter that also jumps to the first row
reset_filter_home(a) == set_selected([a EXCEPT !.evtx_table = reset(@)], 0)

reset_filter(a) == [a EXCEPT !.evtx_table = reset(@)]

app_exit(a) == [a EXCEPT !.exit = TRUE]

\* increase_table_size without the upper limit
increase_table_size_unlimited(a) == [a EXCEPT !.table_percentage = @ + 1]

increase_table_size(a) ==
    IF a.table_percentage < 97 THEN [a EXCEPT !.table_percentage = @ + 1] ELSE a

decrease_table_size(a) ==
    IF a.table_percentage > 3 THEN [a EXCEPT !.table_percentage = @ - 1] ELSE a

\* change_orientation that also jumps to the first row
change_orientation_home(a) ==
    set_selected([a EXCEPT !.orientation = IF @ = "Horizontal" THEN "Vertical"
                                           ELSE "Horizontal"], 0)

change_orientation(a) ==
    [a EXCEPT !.orientation = IF @ = "Horizontal" THEN "Vertical"
                              ELSE "Horizontal"]

\* steps argument the page keys pass to next/previous
page_steps(a) == a.table_view_port \div 2

\* a match whose catch-all arm jumps to the first row
dispatch_unbound_home(a, key) ==
    CASE key = "q"        -> app_exit(a)
      [] key = "g"        -> set_selected(a, 0)
      [] key = "G"        -> set_selected(a, Max(len(a.evtx_table), 1) - 1)
      [] key = "Down"     -> next(a, 1)
      [] key = "Up"       -> previous(a, 1)
      [] key = "PageDown" -> next(a, page_steps(a))
      [] key = "PageUp"   -> previous(a, page_steps(a))
      [] key = "E"        -> exclude_event_id(a)
      [] key = "e"        -> include_event_id(a)
      [] key = "U"        -> exclude_user(a)
      [] key = "u"        -> include_user(a)
      [] key = "R"        -> reset_filter(a)
      [] key = "o"        -> change_orientation(a)
      [] key = "+"        -> increase_table_size(a)
      [] key = "-"        -> decrease_table_size(a)
      [] OTHER            -> set_selected(a, 0)

\* the match of handle_key_event, after its own update
dispatch(a, key) ==
    CASE key = "q"        -> app_exit(a)
      [] key = "g"        -> set_selected(a, 0)
      [] key = "G"        -> set_selected(a, Max(len(a.evtx_table), 1) - 1)
      [] key = "Down"     -> next(a, 1)
      [] key = "Up"       -> previous(a, 1)
      [] key = "PageDown" -> next(a, page_steps(a))
      [] key = "PageUp"   -> previous(a, page_steps(a))
      [] key = "E"        -> exclude_event_id(a)
      [] key = "e"        -> include_event_id(a)
      [] key = "U"        -> exclude_user(a)
      [] key = "u"        -> include_user(a)
      [] key = "R"        -> reset_filter(a)
      [] key = "o"        -> change_orientation(a)
      [] key = "+"        -> increase_table_size(a)
      [] key = "-"        -> decrease_table_size(a)
      [] OTHER            -> a

\* self.evtx_table.update(), recorded in the iteration's call log
poll_table(a, batch) ==
    [a EXCEPT !.evtx_table = update(@, batch), !.log = Append(@, "update")]

\* handle_key_event without its own update
handle_key_event_no_update(a, key, batch) ==
    dispatch([a EXCEPT !.log = Append(@, "key")], key)

handle_key_event(a, key, batch) ==
    LET a1 == poll_table(a, batch)
    IN dispatch([a1 EXCEPT !.log = Append(@, "key")], key)

NonPress == {"timeout", "ignored"}

\* handle_events that reads the event before it polls the table
handle_events_key_first(a, ev, batch1, batch2) ==
    IF ev \in NonPress THEN poll_table(a, batch1)
    ELSE poll_table(handle_key_event(a, ev, batch2), batch1)

\* ev is "timeout" (event::poll returned false), "ignored" (an event that is
\* not a key press) or the code of a pressed key
handle_events(a, ev, batch1, batch2) ==
    LET a1 == poll_table(a, batch1)
    IN IF ev \in NonPress THEN a1 ELSE handle_key_event(a1, ev, batch2)

\* steps a key passes to next/previous (0 for keys that do not navigate
\* by steps, see StepKeys)
key_steps(a, key) ==
    CASE key \in {"Down", "Up"} -> 1
      [] key \in {"PageDown", "PageUp"} -> page_steps(a)
      [] OTHER -> 0

\* batches the parser may have ready at a poll
Batches(t) == SeqsUpTo(Records, Min(MaxBatch, MaxRecords - Len(t.records)))

Commit(a) ==
    /\ evtx_table' = a.evtx_table
    /\ exit' = a.exit
    /\ state' = a.state
    /\ table_scroll_state' = a.table_scroll_state
    /\ table_view_port' = a.table_view_port
    /\ orientation' = a.orientation
    /\ table_percentage' = a.table_percentage
    /\ tick_log' = a.log

\* the entry of `last` for a step that handled no event
NoEvent(step) == [key |-> step, steps |-> 0, sel |-> None, len |-> 0,
                  call |-> None, polled |-> 0]

\* ------------------------------------------------------------------ Init
Init ==
    \E recs \in SeqsUpTo(Records, MaxBatch) :
        LET a == new(recs) IN
        /\ evtx_table = a.evtx_table
        /\ exit = a.exit
        /\ state = a.state
        /\ table_scroll_state = a.table_scroll_state
        /\ table_view_port = a.table_view_port
        /\ orientation = a.orientation
        /\ table_percentage = a.table_percentage
        /\ pc = "run"
        /\ tick_log = a.log
        /\ last = NoEvent("new")

\* ---------------------------------------------------------------- actions
\* run with a loop that does not test the exit flag
Draw_ignoring_exit ==
    /\ pc = "run"
    /\ \E h \in ViewportHeights :
        Commit([App EXCEPT !.table_view_port = h,
                           !.state = table_render(evtx_table, @),
                           !.log = << "render" >>])
    /\ pc' = "handle_events"
    /\ last' = NoEvent("draw")

\* run: loop test true, terminal.draw(render_frame); a new iteration's call
\* log starts here
Draw ==
    /\ pc = "run"
    /\ ~ exit
    /\ \E h \in ViewportHeights :
        Commit([App EXCEPT !.table_view_port = h,
                           !.state = table_render(evtx_table, @),
                           !.log = << "render" >>])
    /\ pc' = "handle_events"
    /\ last' = NoEvent("draw")

\* run: loop test false, Ok(())
Return ==
    /\ pc = "run"
    /\ exit
    /\ pc' = "done"
    /\ UNCHANGED << evtx_table, exit, state, table_scroll_state,
                    table_view_port, orientation, table_percentage,
                    tick_log, last >>

\* one call of handle_events in which the terminal delivers ev
HandleEvents(ev) ==
    \E batch1 \in Batches(evtx_table) :
    \E batch2 \in (IF ev \in NonPress THEN {<< >>}
                   ELSE Batches(update(evtx_table, batch1))) :
        LET a2 == handle_events(App, ev, batch1, batch2)
            at_call == update(update(evtx_table, batch1), batch2)
        IN /\ Commit(a2)
           /\ pc' = IF a2.panicked THEN "panicked" ELSE "run"
           /\ last' = [key |-> ev, steps |-> key_steps(App, ev),
                       sel |-> state, len |-> len(at_call),
                       call |-> a2.call,
                       polled |-> Len(batch1) + Len(batch2)]

\* an event wait without a timeout: with no input it never returns
PollTimeout_blocking ==
    /\ pc = "handle_events"
    /\ UNCHANGED vars

\* event::poll returns false within 100 ms
PollTimeout ==
    /\ pc = "handle_events"
    /\ HandleEvents("timeout")

\* an event that is not a key press
IgnoredEvent ==
    /\ pc = "handle_events"
    /\ HandleEvents("ignored")

\* Esc or q
KeyQuit ==
    /\ pc = "handle_events"
    /\ HandleEvents("q")

KeyFirst ==
    /\ pc = "handle_events"
    /\ HandleEvents("g")

KeyLast ==
    /\ pc = "handle_events"
    /\ HandleEvents("G")

KeyDown ==
    /\ pc = "handle_events"
    /\ HandleEvents("Down")

KeyUp ==
    /\ pc = "handle_events"
    /\ HandleEvents("Up")

KeyPageDown ==
    /\ pc = "handle_events"
    /\ HandleEvents("PageDown")

KeyPageUp ==
    /\ pc = "handle_events"
    /\ HandleEvents("PageUp")

KeyExcludeEventId ==
    /\ pc = "handle_events"
    /\ HandleEvents("E")

KeyIncludeEventId ==
    /\ pc = "handle_events"
    /\ HandleEvents("e")

KeyExcludeUser ==
    /\ pc = "handle_events"
    /\ HandleEvents("U")

KeyIncludeUser ==
    /\ pc = "handle_events"
    /\ HandleEvents("u")

KeyResetFilter ==
    /\ pc = "handle_events"
    /\ HandleEvents("R")

\* a pressed key without a binding
KeyUnbound ==
    /\ pc = "handle_events"
    /\ HandleEvents("x")

KeyOrientation ==
    /\ pc = "handle_events"
    /\ HandleEvents("o")

KeyPlus ==
    /\ pc = "handle_events"
    /\ HandleEvents("+")

KeyMinus ==
    /\ pc = "handle_events"
    /\ HandleEvents("-")

Next ==
    \/ Draw
    \/ Return
    \/ PollTimeout
    \/ IgnoredEvent
    \/ KeyQuit
    \/ KeyFirst
    \/ KeyLast
    \/ KeyDown
    \/ KeyUp
    \/ KeyPageDown
    \/ KeyPageUp
    \/ KeyExcludeEventId
    \/ KeyIncludeEventId
    \/ KeyExcludeUser
    \/ KeyIncludeUser
    \/ KeyResetFilter
    \/ KeyUnbound

Spec == Init /\ [][Next]_vars

\* the executions in which the user arranges the panes: the layout keys,
\* moving down and quitting
NextLayout ==
    \/ Draw
    \/ Return
    \/ KeyQuit
    \/ KeyDown
    \/ KeyOrientation
    \/ KeyPlus
    \/ KeyMinus

SpecLayout == Init /\ [][NextLayout]_vars

\* the executions in which no input event ever arrives.  Neither step can
\* block: terminal.draw returns, and event::poll gives up after 100 ms, so
\* each is taken whenever it stays enabled.
NextIdle ==
    \/ Draw
    \/ PollTimeout

SpecIdle == Init /\ [][NextIdle]_vars /\ WF_vars(Draw) /\ WF_vars(PollTimeout)

TypeOK ==
    /\ pc \in {"run", "handle_events", "done", "panicked"}
    /\ exit \in BOOLEAN
    /\ Len(state) <= 1

\* ------------------------------------------------------------------ claims
NavKeys == {"Down", "Up", "PageDown", "PageUp"}
FilterKeys == {"E", "e", "U", "u", "R"}
RowFilterKeys == {"E", "e", "U", "u"}

InRange(st, n) == IF n = 0 THEN st = None
                  ELSE st # None /\ 0 <= st[1] /\ st[1] < n

Count(log, tag) == Cardinality({i \in 1..Len(log) : log[i] = tag})
Positions(log, tag) == {i \in 1..Len(log) : log[i] = tag}

\* the iteration that started with the last Draw has run to its end
TickDone == pc = "run" /\ tick_log # << >>

\* C1: in every reachable state the selection is none when the View is
\* empty and otherwise Some(i) with 0 <= i < len(View).
C1_SelectionInRange == InRange(state, len(evtx_table))

\* C2: on an empty View the keys Down, Up, PageDown and PageUp are no-ops:
\* the selection is none before the call and still none after it.
C2_EmptyNavigationNoOp ==
    (last.key \in NavKeys /\ last.len = 0 /\ last.steps # 0)
        => (last.sel = None /\ state = None)

\* C3: after a filter key the selection is clamped to the new View (none if
\* the View is empty, new_len - 1 if the old index is out of range) by the
\* time the next command is about to read it, i.e. at the latest when the
\* draw that follows the filter key has been done.
C3_FilterClampsSelection ==
    [][(last.key \in FilterKeys /\ pc = "run" /\ pc' = "handle_events")
        => LET new_len == len(evtx_table') IN
           /\ new_len = 0 => state' = None
           /\ (new_len > 0 /\ last.sel # None /\ last.sel[1] >= new_len)
                  => state' = Some(new_len - 1)]_vars

\* C4: next(steps), steps >= 1, on a non-empty View with selection Some(i)
\* sets the selection to min(i + steps, len - 1).
C4_NextClampsToLastRow ==
    (last.key \in {"Down", "PageDown"} /\ last.steps >= 1 /\ last.len > 0
        /\ last.sel # None)
        => /\ state = Some(Min(last.sel[1] + last.steps, last.len - 1))
           /\ state[1] <= last.len - 1

C4_Witness ==
    /\ last.key = "PageDown" /\ last.steps = 3
    /\ last.sel = Some(0) /\ last.len = 2
    /\ state = Some(1)

\* C5: previous(steps), steps >= 1, with selection Some(i) sets the
\* selection to max(i - steps, 0).
C5_PreviousSaturatesAtZero ==
    (last.key \in {"Up", "PageUp"} /\ last.steps >= 1 /\ last.sel # None)
        => /\ state = Some(Max(last.sel[1] - last.steps, 0))
           /\ state[1] >= 0

C5_Witness ==
    /\ last.key = "PageUp" /\ last.steps = 3
    /\ last.sel = Some(1)
    /\ state = Some(0)

\* C6: no key event makes next or previous run with steps = 0, so their
\* assert_ne!(steps, 0) never fails.
C6_NoZeroStepNavigation ==
    /\ pc # "panicked"
    /\ last.key \in NavKeys => last.steps # 0

\* C7: set_selected leaves a selection that is a row of the View, and none
\* when the View is empty; in particular g and G on an empty View leave the
\* selection none.
C7_SetSelectedInRange ==
    last.key \in {"g", "G"} => InRange(state, last.len)

\* C8: a filter key whose resulting View still has a row at the previous
\* selection index leaves the selection index as it was.
C8_FilterKeepsPosition ==
    (last.key \in FilterKeys /\ last.sel # None
        /\ last.sel[1] < len(evtx_table))
        => state = last.sel

\* E on row 0 of a two-row View removed that row: row 0 now shows the
\* record that was at row 1, and the selection is still 0
C8_Witness ==
    /\ last.key = "E" /\ last.sel = Some(0) /\ last.len = 2
    /\ len(evtx_table) = 1 /\ evtx_table.view = << 1 >>
    /\ state = Some(0)

\* C9 as stated: in every iteration update is called exactly once, before
\* the key event is processed.
C9_UpdateExactlyOnce ==
    TickDone
        => /\ Count(tick_log, "update") = 1
           /\ \A u \in Positions(tick_log, "update") :
                  \A k \in Positions(tick_log, "key") : u < k

\* C9 amended: in every iteration update is called once at the start of
\* handle_events and, when the event is a key press, once more at the start
\* of handle_key_event; every call precedes the processing of the key.
C9_UpdateOnceOrTwice ==
    TickDone
        => /\ Count(tick_log, "update")
                  = (IF last.key \in NonPress THEN 1 ELSE 2)
           /\ Count(tick_log, "key") = (IF last.key \in NonPress THEN 0 ELSE 1)
           /\ \A u \in Positions(tick_log, "update") :
                  \A k \in Positions(tick_log, "key") : u < k

C9_Witness ==
    /\ TickDone
    /\ last.key = "Down"
    /\ Count(tick_log, "update") = 2

\* C10 as stated: within an iteration ingestion comes first, then the
\* input-driven mutation, then the render.
C10_RenderLastInTick ==
    TickDone
        => \A r \in Positions(tick_log, "render") :
               \A m \in Positions(tick_log, "update")
                        \cup Positions(tick_log, "key") : m < r

\* C10 amended: within an iteration the render comes first, then ingestion,
\* then the input-driven mutation; there is one render per iteration and
\* nothing mutates the state before it in that iteration.
C10_RenderFirstInTick ==
    tick_log # << >>
        => /\ tick_log[1] = "render"
           /\ Positions(tick_log, "render") = {1}
           /\ \A u \in Positions(tick_log, "update") :
                  \A k \in Positions(tick_log, "key") : u < k

\* a filter mutation made in an iteration after that iteration's render
C10_Witness ==
    /\ TickDone
    /\ last.key = "E"
    /\ len(evtx_table) < last.len
    /\ tick_log = << "render", "update", "update", "key" >>

\* C11: the loop ends on the quit key and only on it: a handled q (or Esc)
\* sets the exit flag, no other event sets it, it is never cleared, and once
\* it is set the only step left is the return of run, without a further
\* render, poll or key.
C11_QuitTerminates ==
    [][/\ exit => /\ exit' /\ pc' = "done"
                  /\ tick_log' = tick_log /\ evtx_table' = evtx_table
                  /\ state' = state /\ last' = last
       /\ (~ exit /\ exit') => (pc = "handle_events" /\ last'.key = "q")
       /\ (pc = "handle_events" /\ last'.key = "q") => exit']_vars

C11_Witness ==
    /\ pc = "done" /\ exit /\ last.key = "q"
    /\ tick_log = << "render", "update", "update", "key" >>

\* C12: when no key event ever arrives and quit is never requested, the
\* bounded wait always times out, so the render and the ingestion poll both
\* happen infinitely often.
C12_IdleKeepsPolling ==
    /\ []<>(pc = "handle_events" /\ tick_log = << "render" >>)
    /\ []<>(pc = "run" /\ last.key = "timeout"
                /\ tick_log = << "render", "update" >>)

\* records ingested in an iteration without any input
C12_Witness ==
    /\ pc = "run" /\ last.key = "timeout" /\ last.polled > 0
    /\ tick_log = << "render", "update" >>

\* C13: at every render the table scrollbar is derived from the current
\* (selected, len(View)): its position is the selected index and its content
\* length is that of the current View (len, or len - 1 floored at 0 as
\* App::new counts it), also after records arrived or the filter changed.
C13_ScrollbarDerived ==
    (pc = "handle_events" /\ tick_log = << "render" >>)
        => /\ state = Some(table_scroll_state.position)
           /\ table_scroll_state.content_length
                  \in {len(evtx_table), Max(len(evtx_table), 1) - 1}

\* C14: with no row in the View the keys E, e, U and u are no-ops: the
\* predicate set, the View and the selection stay as they are, the table's
\* exclude/include operations are not called, and nothing fails.
C14_EmptyFilterKeysNoOp ==
    [][(pc = "handle_events" /\ last'.key \in RowFilterKeys /\ last'.len = 0)
        => /\ evtx_table'.filter = evtx_table.filter
           /\ evtx_table'.view = evtx_table.view
           /\ state' = state
           /\ last'.call = None
           /\ pc' = "run"]_vars

\* E pressed while every stored record is filtered out
C14_Witness ==
    /\ last.key = "E" /\ last.len = 0 /\ last.sel # None
    /\ Len(evtx_table.records) > 0
    /\ evtx_table.filter # EmptyFilter
    /\ pc = "run"

Disjoint(f) ==
    /\ f.include_event_id \cap f.exclude_event_id = {}
    /\ f.include_user \cap f.exclude_user = {}

\* the record in row i of the View as the handler of the step saw it: the
\* records after the step's polls under the predicate set before the step
CursorRecord(i) ==
    evtx_table'.records[
        ScanFrom(evtx_table.filter, evtx_table'.records, 1)[i + 1] + 1]

\* C15: after exclude(cat, v) the value v is in the exclude set of cat and
\* not in its include set, after include(cat, v) it is in the include set
\* and not in the exclude set; no value is ever in both sets of a category.
C15_MutualExclusivity ==
    [][/\ Disjoint(evtx_table.filter)
       /\ Disjoint(evtx_table'.filter)
       /\ (pc = "handle_events" /\ last'.call # None
              /\ last'.call[1] < last'.len)
           => LET r == CursorRecord(last'.call[1])
                  f == evtx_table'.filter
              IN /\ last'.key = "E" => /\ r.event_id \in f.exclude_event_id
                                        /\ r.event_id \notin f.include_event_id
                 /\ last'.key = "e" => /\ r.event_id \in f.include_event_id
                                        /\ r.event_id \notin f.exclude_event_id
                 /\ last'.key = "U" => /\ r.user \in f.exclude_user
                                        /\ r.user \notin f.include_user
                 /\ last'.key = "u" => /\ r.user \in f.include_user
                                        /\ r.user \notin f.exclude_user]_vars

\* an exclude by event id made while an include restriction is in force
C15_Witness ==
    /\ last.key = "E" /\ last.call # None /\ last.call[1] < last.len
    /\ evtx_table.filter.exclude_event_id # {}
    /\ evtx_table.filter.include_user # {}

\* C16: when polls append records and the predicate set is unchanged, the
\* old View is a prefix of the new one and the extension holds only indices
\* of newly appended records that pass the filter, in arrival order.
C16_ViewExtendedByPassingNewRecords ==
    [][(evtx_table'.filter = evtx_table.filter)
        => LET old == evtx_table.view
               nw == evtx_table'.view
               n0 == Len(evtx_table.records)
               recs == evtx_table'.records
           IN /\ Len(recs) >= n0
              /\ SubSeq(recs, 1, n0) = evtx_table.records
              /\ Len(nw) >= Len(old)
              /\ SubSeq(nw, 1, Len(old)) = old
              /\ \A j \in (Len(old) + 1)..Len(nw) :
                     /\ n0 <= nw[j] /\ nw[j] < Len(recs)
                     /\ evaluate(evtx_table.filter, recs[nw[j] + 1])
                     /\ \A k \in (j + 1)..Len(nw) : nw[j] < nw[k]]_vars

\* a poll that appended one record which passes a non-trivial predicate set
C16_Witness ==
    /\ last.key = "timeout" /\ last.polled = 1
    /\ evtx_table.view = << 0, 1 >>
    /\ evtx_table.filter # EmptyFilter

\* C17: every exclude/include call made by the keys E, e, U, u passes a row
\* index that is a row of the current View.
C17_CursorRowExists ==
    last.call # None => (0 <= last.call[1] /\ last.call[1] < last.len)

LayoutKeys == {"o", "+", "-"}

\* C18: table_percentage stays within [3, 97], so both pane constraints,
\* table_percentage and 100 - table_percentage, are between 3 and 97 and sum
\* to 100 and the subtraction never underflows; + at 97 and - at 3 leave the
\* value as it is, otherwise they move it by one.
C18_TablePercentageInRange ==
    /\ [](/\ 3 <= table_percentage /\ table_percentage <= 97
          /\ 3 <= 100 - table_percentage /\ 100 - table_percentage <= 97)
    /\ [][/\ (pc = "handle_events" /\ last'.key = "+")
              => table_percentage' = (IF table_percentage = 97 THEN 97
                                      ELSE table_percentage + 1)
          /\ (pc = "handle_events" /\ last'.key = "-")
              => table_percentage' = (IF table_percentage = 3 THEN 3
                                      ELSE table_percentage - 1)]_vars

C18_Witness ==
    /\ last.key = "+" /\ table_percentage = 97 /\ pc = "run"

\* the other orientation
Toggled(o) == IF o = "Horizontal" THEN "Vertical" ELSE "Horizontal"

\* C19: the layout keys change only layout state: o toggles the orientation
\* between Horizontal and Vertical (so two presses restore it) and leaves
\* table_percentage alone, + and - leave the orientation alone; none of the
\* three changes the selection, the table scrollbar, the predicate set or
\* the exit flag, and none fails.
C19_LayoutKeysOnlyLayout ==
    [][(pc = "handle_events" /\ last'.key \in LayoutKeys)
        => /\ state' = state
           /\ table_scroll_state' = table_scroll_state
           /\ evtx_table'.filter = evtx_table.filter
           /\ exit' = exit
           /\ table_view_port' = table_view_port
           /\ pc' = "run"
           /\ last'.key = "o"
                  => /\ orientation' = Toggled(orientation)
                     /\ Toggled(orientation') = orientation
                     /\ orientation' \in {"Horizontal", "Vertical"}
                     /\ table_percentage' = table_percentage
           /\ last'.key \in {"+", "-"}
                  => orientation' = orientation]_vars

\* o pressed with the cursor on the second row and the split moved
C19_Witness ==
    /\ last.key = "o" /\ orientation = "Vertical" /\ pc = "run"
    /\ state = Some(1) /\ table_scroll_state.position = 1
    /\ table_percentage = 51

\* events that are bound to no command
Unbound == {"ignored", "x"}

\* C20: an event is mapped to at most one command, and an event that is
\* not a key press or a pressed key without a binding is mapped to none:
\* selection, scrollbar, predicate set, layout and exit flag stay as they
\* are, and the stored records only grow by what the polls brought.
C20_UnboundEventsChangeNothing ==
    [][pc = "handle_events"
        => /\ Count(tick_log', "key") <= 1
           /\ last'.key = "ignored" => Count(tick_log', "key") = 0
           /\ last'.key \in Unbound
                  => /\ state' = state
                     /\ table_scroll_state' = table_scroll_state
                     /\ evtx_table'.filter = evtx_table.filter
                     /\ orientation' = orientation
                     /\ table_percentage' = table_percentage
                     /\ table_view_port' = table_view_port
                     /\ exit' = exit
                     /\ pc' = "run"
                     /\ Len(evtx_table'.records)
                            = Len(evtx_table.records) + last'.polled
                     /\ SubSeq(evtx_table'.records, 1,
                               Len(evtx_table.records)) = evtx_table.records
                     /\ evtx_table'.view
                            = ScanFrom(evtx_table.filter,
                                       evtx_table'.records, 1)]_vars

\* an unbound key pressed while a filter is set, in an iteration whose poll
\* brought a record that passes the filter
C20_Witness ==
    /\ last.key = "x" /\ last.polled = 1 /\ pc = "run"
    /\ evtx_table.filter # EmptyFilter
    /\ evtx_table.view = << 0, 1 >>
    /\ tick_log = << "render", "update", "update", "key" >>
====
